---- MODULE Spec2Model ----
(***************************************************************************)
(* Model of drumbot_roy's training data pipeline:                          *)
(*   SampleExtractor   (training/sample_extractor.py)                      *)
(*   DrumSampleDataset (training/drum_sample_dataset.py)                   *)
(*                                                                         *)
(* Optional[T] values are sequences of length <= 1: None is <<>> and a     *)
(* present value v is <<v>>.  Python ints are unbounded, so ticks are      *)
(* plain integers.  Denominators are powers of two (what a MIDI file       *)
(* stores), which makes the float expression of line 63-64 exact.          *)
(***************************************************************************)
EXTENDS Integers, Sequences, FiniteSets, TLC

VARIABLES
    disk,                      \* file system: path -> outcome of MidiFile(filename=path)
    midi_file_paths,           \* DrumSampleDataset.midi_file_paths
    paired,                    \* DrumSampleDataset.paired
    filter_out_empty_samples,  \* DrumSampleDataset.filter_out_empty_samples
    ds_only_drum,              \* DrumSampleDataset.only_drum
    bars_per_sample,           \* SampleExtractor.bars_per_sample
    samples,                   \* DrumSampleDataset.samples : Optional[List[RawSample]]
    dsPc,                      \* position of prepare_samples
    fileIdx,                   \* position of the for loop over midi_file_paths
    exPc,                      \* position of the extract_samples generator
    midi_file_path,            \* extract_samples argument
    midi_in,                   \* extract_samples argument midi_obj, as passed by the caller
    only_drum,                 \* extract_samples argument
    midi_obj,                  \* the object midi_obj refers to (the caller's object when one was passed)
    start,                     \* extract_samples local
    end,                       \* extract_samples local
    yielded,                   \* history: the RawSamples yielded so far
    skipped,                   \* history: a window failed fragment construction and was skipped
    lastCall,                  \* the last __len__ / __getitem__ call
    result                     \* what that call returned or raised

vars == <<disk, midi_file_paths, paired, filter_out_empty_samples, ds_only_drum,
          bars_per_sample, samples, dsPc, fileIdx, exPc, midi_file_path, midi_in,
          only_drum, midi_obj, start, end, yielded, skipped, lastCall, result>>

datasetFields == <<midi_file_paths, paired, filter_out_empty_samples, ds_only_drum>>
prepareFrame == <<dsPc, fileIdx>>
extractArgs == <<midi_file_path, midi_in, only_drum>>
extractFrame == <<exPc, midi_obj, start, end, yielded, skipped>>
callFrame == <<lastCall, result>>

----------------------------------------------------------------------------
(* Bounds of the model *)

MaxTick == 3            \* largest max_tick of a timeline
MaxSigTime == 2         \* largest offset of a time-signature event
MaxSigs == 2            \* longest time_signature_changes list
MaxBars == 2            \* largest bars_per_sample
NumPaths == 2           \* files under input_dir
MaxPerFile == 2         \* samples one file contributes to a prepared index
NumIndexFiles == 3      \* files contributing to a prepared index

MaxYield == 3           \* yields explored once the windows are empty (a loop that never ends)
AllPaths == 1..NumPaths

----------------------------------------------------------------------------
(* Optional values *)

None == <<>>
Some(v) == <<v>>

----------------------------------------------------------------------------
\* what a call returns (kind "None", "int", "sample", "pair") or raises (kind "raise")
RNone == [kind |-> "None"]
RInt(n) == [kind |-> "int", val |-> n]
RRaise(exc) == [kind |-> "raise", exc |-> exc]

----------------------------------------------------------------------------
(* MIDI timelines (miditoolkit MidiFile, TimeSignature, Instrument) *)

TimeSignature(numerator, denominator, time) ==
    [numerator |-> numerator, denominator |-> denominator, time |-> time]

\* numerator, denominator of the signatures explored
Meters == {<<1, 8>>, <<3, 8>>, <<1, 4>>}
TicksPerBeat == {1, 2}

TimeSignatures ==
    {TimeSignature(m[1], m[2], t) : m \in Meters, t \in {0, MaxSigTime}}

\* time_signature_changes is ordered by tick offset
IsOrdered(sigs) == \A i \in 1..(Len(sigs) - 1) : sigs[i].time <= sigs[i + 1].time

SigLists ==
    UNION {{sigs \in [1..n -> TimeSignatures] : IsOrdered(sigs)} : n \in 0..MaxSigs}

Instrument(is_drum) == [is_drum |-> is_drum]

InstrumentLists ==
    {<<>>, <<Instrument(TRUE)>>, <<Instrument(FALSE)>>,
     <<Instrument(TRUE), Instrument(FALSE)>>}

MidiFile(sigs, instruments, tpb, mt) ==
    [time_signature_changes |-> sigs, instruments |-> instruments,
     ticks_per_beat |-> tpb, max_tick |-> mt]

Timelines ==
    {MidiFile(sigs, ins, tpb, mt) :
        sigs \in SigLists, ins \in InstrumentLists, tpb \in TicksPerBeat, mt \in {0, MaxTick}}

\* the 4-bar 4/4 file at 480 ticks per beat
FourBarFile == MidiFile(<<TimeSignature(4, 4, 0)>>, <<Instrument(TRUE)>>, 480, 7680)

RawSample(path, s, e, notes) ==
    [file_path |-> path, start |-> s, end |-> e, midi |-> [notes |-> notes]]

\* a file MidiFile(filename=...) fails to parse
Unreadable == [ok |-> FALSE, midi |-> MidiFile(<<>>, <<>>, 1, 0)]

\* outcome of dumping and re-parsing a segment: failure, or a fragment with
\* no note, or a fragment with notes
Fragments == {[ok |-> FALSE, notes |-> 0], [ok |-> TRUE, notes |-> 0], [ok |-> TRUE, notes |-> 1]}

----------------------------------------------------------------------------
(* SampleExtractor *)

RECURSIVE ScanTimeSignatures(_, _, _, _)
ScanTimeSignatures(tick, time_signatures, i, time_sig_at_tick) ==
    IF i > Len(time_signatures) THEN time_sig_at_tick
    ELSE IF tick >= time_signatures[i].time
         THEN ScanTimeSignatures(tick, time_signatures, i + 1, time_signatures[i])
         ELSE time_sig_at_tick

\* the scan with "tick > time_sig.time" in place of line 86
RECURSIVE ScanTimeSignaturesStrict(_, _, _, _)
ScanTimeSignaturesStrict(tick, time_signatures, i, time_sig_at_tick) ==
    IF i > Len(time_signatures) THEN time_sig_at_tick
    ELSE IF tick > time_signatures[i].time
         THEN ScanTimeSignaturesStrict(tick, time_signatures, i + 1, time_signatures[i])
         ELSE time_sig_at_tick

get_time_signature_at_tick_strict(tick, time_signatures) ==
    IF Len(time_signatures) = 0 THEN None
    ELSE Some(ScanTimeSignaturesStrict(tick, time_signatures, 2, time_signatures[1]))

get_time_signature_at_tick(tick, time_signatures) ==
    IF Len(time_signatures) = 0 THEN None
    ELSE Some(ScanTimeSignatures(tick, time_signatures, 2, time_signatures[1]))

\* int((numerator / (denominator / 4)) * ticks_per_beat)
BarTicks(time_sig, ticks_per_beat) ==
    (time_sig.numerator * 4 * ticks_per_beat) \div time_sig.denominator

\* for _ in range(bars_per_sample): the new end, or None when the generator returns
RECURSIVE AdvanceEnd(_, _, _)
AdvanceEnd(bars, e, midi) ==
    IF bars = 0 THEN Some(e)
    ELSE LET time_sig == get_time_signature_at_tick(e, midi.time_signature_changes)
         IN  IF time_sig = None THEN None
             ELSE AdvanceEnd(bars - 1, e + BarTicks(time_sig[1], midi.ticks_per_beat), midi)

DrumInstruments(instruments) == SelectSeq(instruments, LAMBDA instrument : instrument.is_drum)

\* lines 33-54: from the call to the first test of the while loop
ExtractEnter(path, obj, od) ==
    LET parsed == IF obj # None THEN obj
                  ELSE IF disk[path].ok THEN Some(disk[path].midi) ELSE None
    IN  IF parsed = None
        THEN /\ exPc' = "done"
             /\ UNCHANGED <<midi_obj, start, end>>
        ELSE IF Len(parsed[1].time_signature_changes) = 0
        THEN /\ exPc' = "done"
             /\ midi_obj' = parsed
             /\ UNCHANGED <<start, end>>
        ELSE LET filtered == IF od
                             THEN [parsed[1] EXCEPT !.instruments = DrumInstruments(@)]
                             ELSE parsed[1]
             IN  /\ midi_obj' = Some(filtered)
                 /\ IF Len(filtered.instruments) = 0
                    THEN exPc' = "done" /\ UNCHANGED <<start, end>>
                    ELSE exPc' = "loop" /\ start' = 0 /\ end' = 0

\* line 77 left out: the next window starts where this one started
NextStartStale(s, e) == s

\* line 77
NextStart(s, e) == e

\* lines 56-64: the while test passes and the for loop moves end by
\* bars_per_sample bars
ExtractBars ==
    /\ exPc = "loop"
    /\ start < midi_obj[1].max_tick
    /\ LET e == AdvanceEnd(bars_per_sample, end, midi_obj[1])
       IN  IF e = None
           THEN exPc' = "done" /\ UNCHANGED end
           ELSE exPc' = "try" /\ end' = e[1]
    /\ UNCHANGED <<disk, datasetFields, bars_per_sample, samples, prepareFrame,
                   extractArgs, midi_obj, start, yielded, skipped, callFrame>>

\* lines 66-77: the try block and the end of the pass.  frag is what dump +
\* re-parse of the segment produce; resumed says whether the consumer asks
\* for the next item after a yield (the generator stays suspended at the
\* yield otherwise)
WindowBody(frag, resumed) ==
    /\ exPc = "try"
    /\ (frag.ok /\ start = end) => Len(yielded) < MaxYield
    /\ UNCHANGED <<midi_obj, end>>
    /\ IF frag.ok
       THEN /\ yielded' = Append(yielded, RawSample(midi_file_path, start, end, frag.notes))
            /\ UNCHANGED skipped
            /\ IF resumed
               THEN exPc' = "loop" /\ start' = NextStart(start, end)
               ELSE UNCHANGED <<exPc, start>>
       ELSE /\ skipped' = TRUE
            /\ exPc' = "loop"
            /\ start' = NextStart(start, end)
            /\ UNCHANGED yielded

\* extract_samples called directly and iterated to exhaustion
ExtractCall ==
    /\ exPc = "call"
    /\ ExtractEnter(midi_file_path, midi_in, only_drum)
    /\ UNCHANGED <<disk, datasetFields, bars_per_sample, samples, prepareFrame,
                   extractArgs, yielded, skipped, callFrame>>

ExtractWindow ==
    /\ dsPc = "new"
    /\ \E frag \in Fragments : WindowBody(frag, TRUE)
    /\ UNCHANGED <<disk, datasetFields, bars_per_sample, samples, prepareFrame,
                   extractArgs, callFrame>>

ExtractReturn ==
    /\ dsPc = "new"
    /\ exPc = "loop"
    /\ ~(start < midi_obj[1].max_tick)
    /\ exPc' = "done"
    /\ UNCHANGED <<disk, datasetFields, bars_per_sample, samples, prepareFrame,
                   extractArgs, midi_obj, start, end, yielded, skipped, callFrame>>

InitExtract ==
    /\ midi_file_path = 1
    /\ \/ \E tl \in Timelines \cup {FourBarFile} :
             \/ midi_in = Some(tl) /\ disk = [p \in AllPaths |-> Unreadable]
             \/ midi_in = None /\ disk = [p \in AllPaths |-> [ok |-> TRUE, midi |-> tl]]
       \/ midi_in = None /\ disk = [p \in AllPaths |-> Unreadable]
    /\ only_drum \in BOOLEAN
    /\ bars_per_sample \in 1..MaxBars
    /\ midi_file_paths = <<>>
    /\ paired = FALSE
    /\ filter_out_empty_samples = FALSE
    /\ ds_only_drum = FALSE
    /\ samples = None
    /\ dsPc = "new"
    /\ fileIdx = 0
    /\ exPc = "call"
    /\ midi_obj = None
    /\ start = 0
    /\ end = 0
    /\ yielded = <<>>
    /\ skipped = FALSE
    /\ lastCall = None
    /\ result = RNone

NextExtract == ExtractCall \/ ExtractBars \/ ExtractWindow \/ ExtractReturn

SpecExtract == InitExtract /\ [][NextExtract]_vars

FairSpecExtract == SpecExtract /\ WF_vars(NextExtract)

----------------------------------------------------------------------------
(* DrumSampleDataset *)

\* the external tokenizer, a pure function of the fragment
midi_to_tokens(midi) == <<midi.notes>>

TokenizedSample(sample) ==
    [file_path |-> sample.file_path, start |-> sample.start, end |-> sample.end,
     tokens |-> midi_to_tokens(sample.midi)]

RSample(sample) == [kind |-> "sample", sample |-> TokenizedSample(sample)]

RPair(sample_a, sample_b, distance) ==
    [kind |-> "pair", sample_a |-> TokenizedSample(sample_a),
     sample_b |-> TokenizedSample(sample_b), distance |-> distance]

\* list[i] of Python: a negative i counts from the end, anything else outside
\* the list raises IndexError
HasIndex(list, i) == -Len(list) <= i /\ i < Len(list)
At(list, i) == IF i >= 0 THEN list[i + 1] ELSE list[Len(list) + i + 1]

\* __len__ answering 0 for an unprepared dataset
len_zero_when_unprepared(s, p) ==
    IF s = None THEN RInt(0)
    ELSE IF ~p THEN RInt(Len(s[1]))
    ELSE RInt(Len(s[1]) * 2)

__len__(s, p) ==
    IF s = None THEN RNone
    ELSE IF ~p THEN RInt(Len(s[1]))
    ELSE RInt(Len(s[1]) * 2)

\* lines 125-126 judging the pair by window position instead of by file
DistanceByStart(sample_a, sample_b) ==
    IF sample_a.start = sample_b.start THEN 0 ELSE 1

\* lines 125-126
Distance(sample_a, sample_b) ==
    IF sample_a.file_path = sample_b.file_path THEN 0 ELSE 1

\* lines 117-122: the index of sample_b for an even item, None when
\* self.samples[sample_b_idx] of line 120 raises IndexError
EvenPartnerIdx(list, p, item) ==
    LET sample_a == At(list, item \div 2)
        sample_b_idx == (item \div 2) + 1
    IN  IF sample_b_idx >= __len__(Some(list), p).val
        THEN Some((item \div 2) - 1)
        ELSE IF ~HasIndex(list, sample_b_idx) THEN None
        ELSE IF At(list, sample_b_idx).file_path # sample_a.file_path
        THEN Some((item \div 2) - 1)
        ELSE Some(sample_b_idx)

\* line 128: int((item + (len(self) / 2)) % len(self))
OddPartnerIdx(list, p, item) ==
    LET n == __len__(Some(list), p).val
    IN  (item + (n \div 2)) % n

__getitem__(s, p, item) ==
    IF s = None THEN RNone
    ELSE IF ~p
    THEN IF HasIndex(s[1], item) THEN RSample(At(s[1], item)) ELSE RRaise("IndexError")
    ELSE IF ~HasIndex(s[1], item \div 2) THEN RRaise("IndexError")
    ELSE LET sample_a == At(s[1], item \div 2)
         IN  IF item % 2 = 0
             THEN LET sample_b_idx == EvenPartnerIdx(s[1], p, item)
                  IN  IF sample_b_idx = None THEN RRaise("IndexError")
                      ELSE IF ~HasIndex(s[1], sample_b_idx[1]) THEN RRaise("IndexError")
                      ELSE RPair(sample_a, At(s[1], sample_b_idx[1]),
                                 Distance(sample_a, At(s[1], sample_b_idx[1])))
             ELSE LET sample_b_idx == OddPartnerIdx(s[1], p, item)
                  IN  IF ~HasIndex(s[1], sample_b_idx) THEN RRaise("IndexError")
                      ELSE RPair(sample_a, At(s[1], sample_b_idx), 1)

\* lines 74-78: the sample is dropped
Filtered(sample) == filter_out_empty_samples /\ sample.midi.notes = 0

\* line 80: self.samples.append(sample); None has no append
AppendSample(s, sample) == IF s = None THEN None ELSE Some(Append(s[1], sample))

PrepareCall ==
    /\ dsPc = "new"
    /\ exPc = "idle"
    /\ dsPc' = "iter"
    /\ fileIdx' = 1
    /\ UNCHANGED <<disk, datasetFields, bars_per_sample, samples, extractArgs,
                   extractFrame, callFrame>>

\* the for loop takes the next path and starts its generator
PrepareNextFile ==
    /\ dsPc = "iter"
    /\ exPc = "idle"
    /\ fileIdx <= Len(midi_file_paths)
    /\ midi_file_path' = midi_file_paths[fileIdx]
    /\ midi_in' = None
    /\ only_drum' = ds_only_drum
    /\ ExtractEnter(midi_file_paths[fileIdx], None, ds_only_drum)
    /\ UNCHANGED <<disk, datasetFields, bars_per_sample, samples, prepareFrame,
                   yielded, skipped, callFrame>>

\* the try block of the generator and the loop body of lines 74-80 on its sample
PrepareWindow ==
    /\ dsPc = "iter"
    /\ \E frag \in Fragments :
          LET kept == frag.ok /\ ~Filtered([midi |-> [notes |-> frag.notes]])
              raises == kept /\ samples = None
          IN  /\ WindowBody(frag, ~raises)
              /\ IF kept
                 THEN /\ samples' = AppendSample(samples, yielded'[Len(yielded')])
                      /\ dsPc' = IF raises THEN "AttributeError" ELSE "iter"
                 ELSE UNCHANGED <<samples, dsPc>>
    /\ UNCHANGED <<disk, datasetFields, bars_per_sample, fileIdx, extractArgs, callFrame>>

\* the generator is exhausted: on to the next path
PrepareFileDone ==
    /\ dsPc = "iter"
    /\ \/ exPc = "done"
       \/ exPc = "loop" /\ ~(start < midi_obj[1].max_tick)
    /\ exPc' = "idle"
    /\ fileIdx' = fileIdx + 1
    /\ UNCHANGED <<disk, datasetFields, bars_per_sample, samples, dsPc, extractArgs,
                   midi_obj, start, end, yielded, skipped, callFrame>>

PrepareReturn ==
    /\ dsPc = "iter"
    /\ exPc = "idle"
    /\ fileIdx > Len(midi_file_paths)
    /\ dsPc' = "done"
    /\ UNCHANGED <<disk, datasetFields, bars_per_sample, samples, fileIdx, extractArgs,
                   extractFrame, callFrame>>

\* the dataset is idle: no prepare_samples call is running
Idle == dsPc \in {"new", "done", "AttributeError"}

\* the indices a caller tries: every valid one, every negative one that wraps,
\* and the first ones outside on both sides
Items(s, p) ==
    LET n == IF s = None THEN 0 ELSE __len__(s, p).val
    IN  (-n - 2)..(n + 1)

LenCall ==
    /\ Idle
    /\ lastCall' = Some([op |-> "__len__", item |-> 0])
    /\ result' = __len__(samples, paired)
    /\ UNCHANGED <<disk, datasetFields, bars_per_sample, samples, prepareFrame,
                   extractArgs, extractFrame>>

GetItemCall ==
    /\ Idle
    /\ \E item \in Items(samples, paired) :
          /\ lastCall' = Some([op |-> "__getitem__", item |-> item])
          /\ result' = __getitem__(samples, paired, item)
    /\ UNCHANGED <<disk, datasetFields, bars_per_sample, samples, prepareFrame,
                   extractArgs, extractFrame>>

\* the files the directory can hold
DatasetTimelines ==
    {MidiFile(<<TimeSignature(3, 8, 0)>>, <<Instrument(TRUE)>>, 1, 2),
     MidiFile(<<TimeSignature(1, 4, 0)>>, <<Instrument(TRUE), Instrument(FALSE)>>, 1, 2),
     MidiFile(<<TimeSignature(1, 4, 0)>>, <<Instrument(FALSE)>>, 1, 2),
     MidiFile(<<>>, <<Instrument(TRUE)>>, 1, 2)}

DiskFiles ==
    {[ok |-> TRUE, midi |-> tl] : tl \in DatasetTimelines}
    \cup {Unreadable}

\* rglob + shuffle: the paths found, in any order
PathLists ==
    UNION {{l \in [1..n -> AllPaths] : \A i, j \in 1..n : i # j => l[i] # l[j]} : n \in 0..NumPaths}

\* the state __init__ leaves
InitDataset ==
    /\ disk \in [AllPaths -> DiskFiles]
    /\ midi_file_paths \in PathLists
    /\ paired \in BOOLEAN
    /\ filter_out_empty_samples \in BOOLEAN
    /\ ds_only_drum \in BOOLEAN
    /\ bars_per_sample \in 1..MaxBars
    /\ samples = None
    /\ dsPc = "new"
    /\ fileIdx = 0
    /\ exPc = "idle"
    /\ midi_file_path = 0
    /\ midi_in = None
    /\ only_drum = FALSE
    /\ midi_obj = None
    /\ start = 0
    /\ end = 0
    /\ yielded = <<>>
    /\ skipped = FALSE
    /\ lastCall = None
    /\ result = RNone

NextDataset ==
    \/ PrepareCall
    \/ PrepareNextFile
    \/ ExtractBars
    \/ PrepareWindow
    \/ PrepareFileDone
    \/ PrepareReturn
    \/ LenCall
    \/ GetItemCall

SpecDataset == InitDataset /\ [][NextDataset]_vars

----------------------------------------------------------------------------
(* A prepared index: what prepare_samples appends to a list, file after file *)

RECURSIVE IndexOf(_, _)
IndexOf(counts, f) ==
    IF f > Len(counts) THEN <<>>
    ELSE [k \in 1..counts[f] |-> RawSample(f, k - 1, k, 1)] \o IndexOf(counts, f + 1)

PreparedIndexes ==
    {IndexOf(counts, 1) : counts \in [1..NumIndexFiles -> 0..MaxPerFile]}

InitItem ==
    /\ samples \in {Some(l) : l \in PreparedIndexes}
    /\ paired \in BOOLEAN
    /\ dsPc = "done"
    /\ disk = [p \in 1..NumIndexFiles |-> Unreadable]
    /\ midi_file_paths = [i \in 1..NumIndexFiles |-> i]
    /\ filter_out_empty_samples = FALSE
    /\ ds_only_drum = FALSE
    /\ bars_per_sample = 1
    /\ fileIdx = 1
    /\ exPc = "idle"
    /\ midi_file_path = 0
    /\ midi_in = None
    /\ only_drum = FALSE
    /\ midi_obj = None
    /\ start = 0
    /\ end = 0
    /\ yielded = <<>>
    /\ skipped = FALSE
    /\ lastCall = None
    /\ result = RNone

NextItem == LenCall \/ GetItemCall

SpecItem == InitItem /\ [][NextItem]_vars

----------------------------------------------------------------------------
(* Properties *)

LastItem == lastCall[1].item
IsGetItem == lastCall # None /\ lastCall[1].op = "__getitem__"
IsLen == lastCall # None /\ lastCall[1].op = "__len__"

\* the flat index as a list (empty while unset), its size, its 0-based positions
IndexList == IF samples = None THEN <<>> ELSE samples[1]
Count == Len(IndexList)
Length == IF paired THEN 2 * Count ELSE Count

\* C1: when prepare_samples has ended on a fresh dataset it ended without
\* error, and the flat index holds every yielded sample that was not
\* filtered, in the order yielded (file order, then window order)
C1_PrepareBuildsIndex ==
    dsPc \in {"done", "AttributeError"} =>
        /\ dsPc = "done"
        /\ IndexList = SelectSeq(yielded, LAMBDA sample : ~Filtered(sample))

\* C2: on a dataset whose samples are unset, a __len__ or __getitem__ call
\* returns None and leaves the file list and the unset index as they were
C2_UnpreparedAccess ==
    [][(samples = None /\ lastCall' # lastCall) =>
          /\ result' = RNone
          /\ samples' = None
          /\ midi_file_paths' = midi_file_paths]_vars

C2_Witness ==
    /\ samples = None
    /\ dsPc = "new"
    /\ IsGetItem
    /\ LastItem = 1
    /\ result = RNone

\* C3: in paired mode an even index inside [0, length()) returns the pair of
\* samples[index//2] with samples[index//2 + 1] when that is a position of
\* the index holding a sample of the same file, and with samples[index//2 - 1]
\* otherwise
C3_EvenPartner ==
    (samples # None /\ paired /\ IsGetItem /\ LastItem % 2 = 0
        /\ 0 <= LastItem /\ LastItem < Length) =>
        LET i == LastItem \div 2
            next_same_file == /\ i + 1 < Count
                              /\ At(IndexList, i + 1).file_path = At(IndexList, i).file_path
            partner == IF next_same_file THEN i + 1 ELSE i - 1
        IN  /\ result.kind = "pair"
            /\ result.sample_a = TokenizedSample(At(IndexList, i))
            /\ result.sample_b = TokenizedSample(At(IndexList, partner))

\* C4: in paired mode an odd index inside [0, length()) never fails: it
\* returns samples[index//2] paired with the sample at position
\* (index//2 + length()/2) mod length() of the index, at distance 1
C4_OddPartner ==
    (samples # None /\ paired /\ IsGetItem /\ LastItem % 2 = 1
        /\ 0 <= LastItem /\ LastItem < Length) =>
        LET i == LastItem \div 2
            partner == (i + (Length \div 2)) % Length
        IN  /\ result.kind = "pair"
            /\ result.sample_a = TokenizedSample(At(IndexList, i))
            /\ partner < Count
            /\ result.sample_b = TokenizedSample(At(IndexList, partner))
            /\ result.distance = 1

\* C5: on a prepared dataset an index outside [0, length()), negative ones
\* included, ends in an error; in unpaired mode an index inside the range
\* returns the sample at that position
C5_IndexRange ==
    (samples # None /\ IsGetItem) =>
        /\ (LastItem < 0 \/ LastItem >= Length) => result.kind = "raise"
        /\ (~paired /\ 0 <= LastItem /\ LastItem < Length) =>
              result = RSample(IndexList[LastItem + 1])

\* the yielded samples start at 0 and each starts where its predecessor ends
Contiguous ==
    /\ Len(yielded) > 0 => yielded[1].start = 0
    /\ \A i \in 1..(Len(yielded) - 1) : yielded[i].end = yielded[i + 1].start

\* C6 as stated: the yielded samples are contiguous from 0 whatever windows
\* were skipped
C6_ContiguousWhateverFails == Contiguous

\* C6 amended: the yielded samples never overlap and keep their order; they
\* are contiguous from 0 as long as no window was skipped
C6_ContiguousUnlessSkipped ==
    /\ \A i \in 1..Len(yielded) : 0 <= yielded[i].start /\ yielded[i].start <= yielded[i].end
    /\ \A i \in 1..(Len(yielded) - 1) : yielded[i].end <= yielded[i + 1].start
    /\ ~skipped => Contiguous

C6_Witness ==
    /\ exPc = "done"
    /\ ~skipped
    /\ Len(yielded) >= 2
    /\ Len(midi_obj[1].time_signature_changes) = 2

\* C7: the window loop of extract_samples eventually stops
C7_Terminates == <>(exPc = "done")

\* C8: extraction from an already-parsed timeline leaves that timeline
\* (instrument tracks, time signatures) as it was passed
C8_InputUntouched ==
    (midi_in # None /\ exPc = "done") => midi_obj = midi_in

\* C9: in paired mode a pair returned for an even index has distance 0
\* exactly when both samples come from the same file and distance 1 exactly
\* when they come from different files
C9_DistanceIsFileIdentity ==
    (samples # None /\ paired /\ IsGetItem /\ LastItem % 2 = 0 /\ result.kind = "pair") =>
        /\ result.distance = 0 <=> result.sample_a.file_path = result.sample_b.file_path
        /\ result.distance = 1 <=> result.sample_a.file_path # result.sample_b.file_path

C9_Witness ==
    /\ samples # None /\ paired /\ IsGetItem
    /\ LastItem % 2 = 0
    /\ LastItem >= 2
    /\ result.kind = "pair"
    /\ result.distance = 1
    /\ result.sample_a.file_path # result.sample_b.file_path

\* the signature in force at a tick: the last one whose offset is <= tick,
\* the first one when none is
ActiveSignature(tick, sigs) ==
    LET preceding == {i \in 1..Len(sigs) : sigs[i].time <= tick}
    IN  IF preceding = {} THEN sigs[1]
        ELSE sigs[CHOOSE i \in preceding : \A j \in preceding : j <= i]

\* (numerator / (denominator / 4)) * ticks_per_beat truncated to whole ticks
BarLength(sig, tpb) ==
    CHOOSE t \in 0..(4 * sig.numerator * tpb) :
        /\ t * sig.denominator <= 4 * sig.numerator * tpb
        /\ 4 * sig.numerator * tpb < (t + 1) * sig.denominator

RECURSIVE SpanOfBars(_, _, _)
SpanOfBars(tick, bars, midi) ==
    IF bars = 0 THEN tick
    ELSE SpanOfBars(tick + BarLength(ActiveSignature(tick, midi.time_signature_changes),
                                     midi.ticks_per_beat),
                    bars - 1, midi)

\* C10: every yielded window spans exactly bars_per_sample bars, each as
\* long as the signature in force at its first tick makes it; the 4-bar 4/4
\* file at 480 ticks per beat gives [0, 3840) and [3840, 7680) for 2 bars
C10_WindowSpansBars ==
    /\ \A i \in 1..Len(yielded) :
          yielded[i].end = SpanOfBars(yielded[i].start, bars_per_sample, midi_obj[1])
    /\ (midi_obj = Some(FourBarFile) /\ bars_per_sample = 2 /\ exPc = "done" /\ ~skipped) =>
          /\ Len(yielded) = 2
          /\ <<yielded[1].start, yielded[1].end>> = <<0, 3840>>
          /\ <<yielded[2].start, yielded[2].end>> = <<3840, 7680>>

\* a two-bar window whose second bar falls under another signature than its first
C10_Witness ==
    /\ exPc = "done"
    /\ bars_per_sample = 2
    /\ \E i \in 1..Len(yielded) :
          yielded[i].end - yielded[i].start #
              2 * BarTicks(get_time_signature_at_tick(yielded[i].start,
                               midi_obj[1].time_signature_changes)[1],
                           midi_obj[1].ticks_per_beat)

====
